---- MODULE Spec2Model ----
(***************************************************************************)
(* GCal Extractor: the aggregation engine of src/data_processor.py.        *)
(* Text is a sequence of one-character strings; a dict is an association   *)
(* list in insertion order, as Python's dict is.                           *)
(***************************************************************************)
EXTENDS Integers, Sequences, FiniteSets, TLC

VARIABLES events, idx, processed_data, totales_data, detalle_data, done, pc,
          title, normalized, extracted, title_value, outcome,
          event_start, formatted, ws, report

vars == <<events, idx, processed_data, totales_data, detalle_data, done, pc,
          title, normalized, extracted, title_value, outcome,
          event_start, formatted, ws, report>>

(* the variables of the title value, of the start and of the report *)
valueVars == <<title_value, outcome>>
dateVars == <<event_start, formatted>>
sheetVars == <<ws, report>>

(* ---- bounds ---- *)
MaxEvents == 3
MaxBody == 3
MaxColumns == 2

(* ======================= characters and text ========================== *)
LowerLetters == <<"a","b","c","d","e","f","g","h","i","j","k","l","m",
                  "n","o","p","q","r","s","t","u","v","w","x","y","z">>
UpperLetters == <<"A","B","C","D","E","F","G","H","I","J","K","L","M",
                  "N","O","P","Q","R","S","T","U","V","W","X","Y","Z">>
Digits == <<"0","1","2","3","4","5","6","7","8","9">>

(* U+0130, the capital I with a dot above, and U+0307, the combining dot
   above: str.lower() maps the first to "i" followed by the second *)
CapitalIWithDot == "U+0130"
CombiningDot == "U+0307"

Range(s) == {s[i] : i \in 1..Len(s)}
IndexIn(s, c) == CHOOSE i \in 1..Len(s) : s[i] = c

(* str.isspace(): the space, the tab and the line feed of the alphabet *)
IsSpace(c) == c \in {" ", "\t", "\n"}
IsLower(c) == c \in Range(LowerLetters)
IsUpper(c) == c \in Range(UpperLetters) \/ c = CapitalIWithDot
(* a cased character, as str.title() sees it *)
IsCased(c) == IsLower(c) \/ IsUpper(c)
(* the one-character case mappings, which re.IGNORECASE compares by *)
ToLower(c) ==
  IF c = CapitalIWithDot THEN "i"
  ELSE IF IsUpper(c) THEN LowerLetters[IndexIn(UpperLetters, c)] ELSE c
ToUpper(c) == IF IsLower(c) THEN UpperLetters[IndexIn(LowerLetters, c)] ELSE c
(* the full case mappings of str.title(), which may yield two characters *)
LowerFull(c) == IF c = CapitalIWithDot THEN <<"i", CombiningDot>> ELSE <<ToLower(c)>>
TitleFull(c) == <<ToUpper(c)>>

(* the code point, which orders Python's str comparison *)
CodePoint(c) ==
  CASE IsLower(c) -> 96 + IndexIn(LowerLetters, c)
    [] IsUpper(c) -> 64 + IndexIn(UpperLetters, c)
    [] c \in Range(Digits) -> 47 + IndexIn(Digits, c)
    [] c = "\t" -> 9
    [] c = "\n" -> 10
    [] c = " " -> 32
    [] c = "'" -> 39
    [] c = "-" -> 45
    [] c = "/" -> 47
    [] c = ":" -> 58
    [] c = CapitalIWithDot -> 304
    [] c = CombiningDot -> 775

(* s < t for two str values: the first differing code point decides, and a
   proper prefix is the smaller *)
StrLess(s, t) ==
  \E k \in 1..(Len(t)) :
     /\ \A i \in 1..(k - 1) : i <= Len(s) /\ s[i] = t[i]
     /\ Len(s) >= k - 1
     /\ \/ Len(s) = k - 1
        \/ CodePoint(s[k]) < CodePoint(t[k])

(* list.sort(key=...): stable, ascending. less[i][j] tells whether the key
   of seq[i] is smaller than the key of seq[j]; an element goes behind every
   element placed before it whose key is not greater *)
StableSort(seq, less) ==
  LET Insert(sorted, x) ==
        LET p == Cardinality({k \in 1..Len(sorted) : ~less[x][sorted[k]]})
        IN SubSeq(sorted, 1, p) \o <<x>> \o SubSeq(sorted, p + 1, Len(sorted))
      F[i \in 0..Len(seq)] == IF i = 0 THEN <<>> ELSE Insert(F[i - 1], i)
  IN [k \in 1..Len(seq) |-> seq[F[Len(seq)][k]]]

(* ======================= normalize_patient_name ======================= *)
(* str.strip() *)
Strip(s) ==
  LET keep == {i \in 1..Len(s) : ~IsSpace(s[i])}
  IN IF keep = {} THEN <<>>
     ELSE LET lo == CHOOSE i \in keep : \A j \in keep : i <= j
              hi == CHOOSE i \in keep : \A j \in keep : j <= i
          IN SubSeq(s, lo, hi)

(* str.title(): a cased character is upper-cased when the character before
   it is not cased, lower-cased otherwise *)
Title(s) ==
  LET F[i \in 0..Len(s)] ==
        IF i = 0 THEN <<>>
        ELSE F[i - 1] \o (IF i > 1 /\ IsCased(s[i - 1])
                          THEN LowerFull(s[i]) ELSE TitleFull(s[i]))
  IN F[Len(s)]

(* re.sub(r'\s+', ' ', s): every maximal run of whitespace becomes one space *)
CollapseSpaces(s) ==
  LET keep == {i \in 1..Len(s) : ~(IsSpace(s[i]) /\ i > 1 /\ IsSpace(s[i - 1]))}
      F[i \in 0..Len(s)] ==
        IF i = 0 THEN <<>>
        ELSE IF i \in keep
             THEN Append(F[i - 1], IF IsSpace(s[i]) THEN " " ELSE s[i])
             ELSE F[i - 1]
  IN F[Len(s)]

normalize_patient_name(name) ==
  IF name = <<>> THEN <<>>
  ELSE CollapseSpaces(Title(Strip(name)))

(* ======================= extract_patient_name ========================= *)
(* the last index of the run of whitespace that starts at from (from - 1
   when t[from] is not whitespace): what a greedy \s+ consumes *)
WsRunEnd(t, from) ==
  LET ok == {k \in (from - 1)..Len(t) : \A i \in from..k : IsSpace(t[i])}
  IN CHOOSE k \in ok : \A m \in ok : m <= k

(* the last index a greedy .+ reaches from from: '.' matches all but "\n" *)
DotRunEnd(t, from) ==
  LET ok == {k \in (from - 1)..Len(t) : \A i \in from..k : t[i] # "\n"}
  IN CHOOSE k \in ok : \A m \in ok : m <= k

(* '$' without re.MULTILINE: the end of the text, or just before a line feed
   that ends the text *)
AtDollar(t, e) == e = Len(t) \/ (e = Len(t) - 1 /\ t[Len(t)] = "\n")

(* the literal compared without re.IGNORECASE *)
LiteralAtCaseSensitive(t, from, lit) ==
  /\ Len(t) >= from + Len(lit) - 1
  /\ \A i \in 1..Len(lit) : t[from + i - 1] = lit[i]

(* a literal of the pattern at position from, under re.IGNORECASE *)
LiteralAt(t, from, lit) ==
  /\ Len(t) >= from + Len(lit) - 1
  /\ \A i \in 1..Len(lit) : ToLower(t[from + i - 1]) = ToLower(lit[i])

(* re.match(r'^Padres\s+de\s+(.+)$', t, re.IGNORECASE): the match and its
   group(1). The first \s+ cannot give a character back (the next one must be
   'd'); the second gives back as few as lets (.+)$ match. *)
PadresMatch(t) ==
  LET none == [matched |-> FALSE, group |-> <<>>]
  IN IF ~LiteralAt(t, 1, <<"P","a","d","r","e","s">>) THEN none
     ELSE LET a == WsRunEnd(t, 7)
          IN IF a < 7 \/ ~LiteralAt(t, a + 1, <<"d","e">>) THEN none
             ELSE LET b == WsRunEnd(t, a + 3)
                      good == {j \in (a + 3)..b :
                                 LET e == DotRunEnd(t, j + 1)
                                 IN e >= j + 1 /\ AtDollar(t, e)}
                  IN IF good = {} THEN none
                     ELSE LET j == CHOOSE x \in good : \A y \in good : y <= x
                          IN [matched |-> TRUE,
                              group |-> SubSeq(t, j + 1, DotRunEnd(t, j + 1))]

(* returns <<patient_name, is_parent_session>> *)
extract_patient_name(event_title) ==
  IF event_title = <<>> THEN << <<>>, FALSE >>
  ELSE LET match == PadresMatch(event_title)
       IN IF match.matched
          THEN << normalize_patient_name(match.group), TRUE >>
          ELSE << normalize_patient_name(event_title), FALSE >>

(* ======================= dates ======================================== *)
DigitValue(c) == IndexIn(Digits, c) - 1
(* int() of a run of decimal digits *)
Number(s) ==
  LET F[i \in 0..Len(s)] == IF i = 0 THEN 0 ELSE 10 * F[i - 1] + DigitValue(s[i])
  IN F[Len(s)]
Pad2(n) == <<Digits[((n \div 10) % 10) + 1], Digits[(n % 10) + 1]>>
Pad4(n) == Pad2(n \div 100) \o Pad2(n % 100)

(* str.replace('Z', '+00:00') *)
ReplaceZ(s) ==
  LET F[i \in 0..Len(s)] ==
        IF i = 0 THEN <<>>
        ELSE F[i - 1] \o (IF s[i] = "Z" THEN <<"+","0","0",":","0","0">> ELSE <<s[i]>>)
  IN F[Len(s)]

(* the timestamp converted to UTC before its date is taken *)
FromIsoFormatAsUtc(s) ==
  LET tz == SubSeq(s, 20, Len(s))
      hour == Number(SubSeq(s, 12, 13))
      offset == IF Len(tz) < 3 THEN 0 ELSE Number(SubSeq(tz, 2, 3))
      utc == IF tz # <<>> /\ tz[1] = "-" THEN hour + offset ELSE hour - offset
      shift == IF utc >= 24 THEN 1 ELSE IF utc < 0 THEN 0 - 1 ELSE 0
  IN [year |-> Number(SubSeq(s, 1, 4)), month |-> Number(SubSeq(s, 6, 7)),
      day |-> Number(SubSeq(s, 9, 10)) + shift, hour |-> (utc + 24) % 24,
      tzinfo |-> <<"+","0","0",":","0","0">>]

(* datetime.fromisoformat, of YYYY-MM-DDTHH:MM:SS and an optional offset:
   the fields are the text's own, the offset is kept beside them *)
FromIsoFormat(s) ==
  [year |-> Number(SubSeq(s, 1, 4)), month |-> Number(SubSeq(s, 6, 7)),
   day |-> Number(SubSeq(s, 9, 10)), hour |-> Number(SubSeq(s, 12, 13)),
   tzinfo |-> SubSeq(s, 20, Len(s))]

(* datetime.strptime(s, '%Y-%m-%d') *)
StrptimeYMD(s) ==
  [year |-> Number(SubSeq(s, 1, 4)), month |-> Number(SubSeq(s, 6, 7)),
   day |-> Number(SubSeq(s, 9, 10)), hour |-> 0, tzinfo |-> <<>>]

(* datetime.strptime(s, '%d/%m/%Y') *)
StrptimeDMY(s) ==
  [year |-> Number(SubSeq(s, 7, 10)), month |-> Number(SubSeq(s, 4, 5)),
   day |-> Number(SubSeq(s, 1, 2)), hour |-> 0, tzinfo |-> <<>>]

(* datetime.strftime('%d/%m/%Y') *)
StrftimeDMY(dt) == Pad2(dt.day) \o <<"/">> \o Pad2(dt.month) \o <<"/">> \o Pad4(dt.year)

(* d1 < d2 for two naive datetimes at midnight *)
DateLess(d1, d2) ==
  \/ d1.year < d2.year
  \/ d1.year = d2.year /\ d1.month < d2.month
  \/ d1.year = d2.year /\ d1.month = d2.month /\ d1.day < d2.day

(* the dates compared as text, without strptime *)
DateTextLessAsText(x, y) == StrLess(x, y)

(* the sort key of lines 198 and 206 *)
DateTextLess(x, y) == DateLess(StrptimeDMY(x), StrptimeDMY(y))

(* ======================= process_events =============================== *)
(* the position of the entry of an association list whose field f is k; 0
   when there is none *)
CalendarIndex(data, calendar_id) ==
  IF \E i \in 1..Len(data) : data[i].calendar_id = calendar_id
  THEN CHOOSE i \in 1..Len(data) : data[i].calendar_id = calendar_id
  ELSE 0

PatientIndex(patients, patient_name) ==
  IF \E i \in 1..Len(patients) : patients[i].name = patient_name
  THEN CHOOSE i \in 1..Len(patients) : patients[i].name = patient_name
  ELSE 0

(* the counter set when the patient group is created and not incremented
   afterwards *)
AddSessionCountOnCreate(data, calendar_id, calendar_name, patient_name, session_data) ==
  LET d1 == IF CalendarIndex(data, calendar_id) = 0
            THEN Append(data, [calendar_id |-> calendar_id,
                               calendar_name |-> calendar_name,
                               patients |-> <<>>])
            ELSE data
      ci == CalendarIndex(d1, calendar_id)
      p0 == d1[ci].patients
      p1 == IF PatientIndex(p0, patient_name) = 0
            THEN Append(p0, [name |-> patient_name, total_sessions |-> 1,
                             sessions |-> <<>>])
            ELSE p0
      pi == PatientIndex(p1, patient_name)
      p2 == [p1 EXCEPT ![pi] = [@ EXCEPT !.sessions = Append(@, session_data)]]
  IN [d1 EXCEPT ![ci] = [@ EXCEPT !.patients = p2]]

(* the display name overwritten by every event of the calendar *)
AddSessionLastNameWins(data, calendar_id, calendar_name, patient_name, session_data) ==
  LET d1 == IF CalendarIndex(data, calendar_id) = 0
            THEN Append(data, [calendar_id |-> calendar_id,
                               calendar_name |-> calendar_name,
                               patients |-> <<>>])
            ELSE data
      ci == CalendarIndex(d1, calendar_id)
      p0 == d1[ci].patients
      p1 == IF PatientIndex(p0, patient_name) = 0
            THEN Append(p0, [name |-> patient_name, total_sessions |-> 0,
                             sessions |-> <<>>])
            ELSE p0
      pi == PatientIndex(p1, patient_name)
      p2 == [p1 EXCEPT ![pi] =
               [@ EXCEPT !.sessions = Append(@, session_data),
                         !.total_sessions = @ + 1]]
  IN [d1 EXCEPT ![ci] = [@ EXCEPT !.patients = p2, !.calendar_name = calendar_name]]

(* lines 109-131: the calendar and the patient are created on first sight,
   the session is appended and the counter incremented *)
AddSession(data, calendar_id, calendar_name, patient_name, session_data) ==
  LET d1 == IF CalendarIndex(data, calendar_id) = 0
            THEN Append(data, [calendar_id |-> calendar_id,
                               calendar_name |-> calendar_name,
                               patients |-> <<>>])
            ELSE data
      ci == CalendarIndex(d1, calendar_id)
      p0 == d1[ci].patients
      p1 == IF PatientIndex(p0, patient_name) = 0
            THEN Append(p0, [name |-> patient_name, total_sessions |-> 0,
                             sessions |-> <<>>])
            ELSE p0
      pi == PatientIndex(p1, patient_name)
      p2 == [p1 EXCEPT ![pi] =
               [@ EXCEPT !.sessions = Append(@, session_data),
                         !.total_sessions = @ + 1]]
  IN [d1 EXCEPT ![ci] = [@ EXCEPT !.patients = p2]]

(* lines 89-98: is there a usable start *)
HasStart(event) == event.start.has_dateTime \/ event.start.has_date

(* lines 91-101: the dateTime is preferred to the date *)
FormattedDate(event) ==
  IF event.start.has_dateTime
  THEN StrftimeDMY(FromIsoFormat(ReplaceZ(event.start.dateTime)))
  ELSE StrftimeDMY(StrptimeYMD(event.start.date))

(* the three 'continue's of the loop body *)
Survives(event) ==
  /\ event.has_summary
  /\ HasStart(event)
  /\ extract_patient_name(event.summary)[1] # <<>>

(* the calendar group created before the 'continue's are reached *)
ProcessOneCreatesCalendarFirst(data, event) ==
  LET d1 == IF CalendarIndex(data, event.calendar_id) = 0
            THEN Append(data, [calendar_id |-> event.calendar_id,
                               calendar_name |-> event.calendar_name,
                               patients |-> <<>>])
            ELSE data
  IN IF ~Survives(event) THEN d1
     ELSE LET ex == extract_patient_name(event.summary)
          IN AddSession(d1, event.calendar_id, event.calendar_name, ex[1],
                        [date |-> FormattedDate(event),
                         title |-> event.summary,
                         is_parent_session |-> ex[2]])

(* the loop body without the 'continue' of line 107 *)
ProcessOneKeepsEmptyName(data, event) ==
  IF ~(event.has_summary /\ HasStart(event)) THEN data
  ELSE LET ex == extract_patient_name(event.summary)
       IN AddSession(data, event.calendar_id, event.calendar_name, ex[1],
                     [date |-> FormattedDate(event),
                      title |-> event.summary,
                      is_parent_session |-> ex[2]])

(* one pass of the loop body over one event *)
ProcessOne(data, event) ==
  IF ~Survives(event) THEN data
  ELSE LET ex == extract_patient_name(event.summary)
       IN AddSession(data, event.calendar_id, event.calendar_name, ex[1],
                     [date |-> FormattedDate(event),
                      title |-> event.summary,
                      is_parent_session |-> ex[2]])

(* ======================= generate_totales_data ======================== *)
TotalesKeyLess(x, y) ==
  \/ StrLess(x.calendario, y.calendario)
  \/ x.calendario = y.calendario /\ StrLess(x.nombre, y.nombre)

(* one row for every session of a patient instead of one for the patient *)
TotalesRowsPerSession(data) ==
  LET RowsOf(patient, calendar_name) ==
        [j \in 1..Len(patient.sessions) |->
           [calendario |-> calendar_name, nombre |-> patient.name,
            total |-> patient.total_sessions]]
      G(cal) ==
        LET H[j \in 0..Len(cal.patients)] ==
              IF j = 0 THEN <<>>
              ELSE H[j - 1] \o RowsOf(cal.patients[j], cal.calendar_name)
        IN H[Len(cal.patients)]
      F[i \in 0..Len(data)] == IF i = 0 THEN <<>> ELSE F[i - 1] \o G(data[i])
  IN F[Len(data)]

(* the rows in the order of the two nested loops, before the sort *)
TotalesRows(data) ==
  LET RowsOf(cal) ==
        [j \in 1..Len(cal.patients) |->
           [calendario |-> cal.calendar_name,
            nombre |-> cal.patients[j].name,
            total |-> cal.patients[j].total_sessions]]
      F[i \in 0..Len(data)] == IF i = 0 THEN <<>> ELSE F[i - 1] \o RowsOf(data[i])
  IN F[Len(data)]

(* the rows without the sort of line 157 *)
generate_totales_unsorted(data) == TotalesRows(data)

generate_totales_data(data) ==
  LET rows == TotalesRows(data)
  IN StableSort(rows, [i \in 1..Len(rows) |->
                        [j \in 1..Len(rows) |-> TotalesKeyLess(rows[i], rows[j])]])

(* ======================= generate_detalle_data ======================== *)
SessionDates(sessions, parent) ==
  LET F[i \in 0..Len(sessions)] ==
        IF i = 0 THEN <<>>
        ELSE IF sessions[i].is_parent_session = parent
             THEN Append(F[i - 1], sessions[i].date)
             ELSE F[i - 1]
  IN F[Len(sessions)]

(* the parent label spelled as a title-cased name would be *)
PadresDeTitleCased == <<"P","a","d","r","e","s"," ","D","e"," ">>

(* f'Padres de {patient_name}' (line 208) *)
PadresDe == <<"P","a","d","r","e","s"," ","d","e"," ">>

(* list.sort(key=lambda x: datetime.strptime(x, '%d/%m/%Y')) *)
SortDates(dates) ==
  StableSort(dates, [i \in 1..Len(dates) |->
                       [j \in 1..Len(dates) |-> DateTextLess(dates[i], dates[j])]])

(* lines 186-210: the columns of one patient *)
PatientColumns(patient) ==
  LET regular_sessions == SessionDates(patient.sessions, FALSE)
      parent_sessions == SessionDates(patient.sessions, TRUE)
  IN (IF regular_sessions # <<>>
      THEN << [patient_name |-> patient.name,
               dates |-> SortDates(regular_sessions)] >>
      ELSE <<>>)
     \o
     (IF parent_sessions # <<>>
      THEN << [patient_name |-> PadresDe \o patient.name,
               dates |-> SortDates(parent_sessions)] >>
      ELSE <<>>)

ColumnLabelLess(x, y) == StrLess(x.patient_name, y.patient_name)

(* the column list without the sort of line 213 *)
CalendarColumnsUnsorted(cal) ==
  LET F[j \in 0..Len(cal.patients)] ==
        IF j = 0 THEN <<>> ELSE F[j - 1] \o PatientColumns(cal.patients[j])
  IN F[Len(cal.patients)]

(* lines 183-213: the sorted column list of one calendar *)
CalendarColumns(cal) ==
  LET F[j \in 0..Len(cal.patients)] ==
        IF j = 0 THEN <<>> ELSE F[j - 1] \o PatientColumns(cal.patients[j])
      cols == F[Len(cal.patients)]
  IN StableSort(cols, [i \in 1..Len(cols) |->
                        [j \in 1..Len(cols) |-> ColumnLabelLess(cols[i], cols[j])]])

(* detalle_data[calendar_name] = value: a key already there keeps its place *)
DictSet(d, calendar_name, value) ==
  IF \E i \in 1..Len(d) : d[i].calendar_name = calendar_name
  THEN [i \in 1..Len(d) |->
          IF d[i].calendar_name = calendar_name
          THEN [calendar_name |-> calendar_name, columns |-> value]
          ELSE d[i]]
  ELSE Append(d, [calendar_name |-> calendar_name, columns |-> value])

(* every session list sorted by date in the grouped structure itself *)
SortedInPlace(data) ==
  [a \in 1..Len(data) |->
     [data[a] EXCEPT !.patients =
        [m \in 1..Len(data[a].patients) |->
           LET sessions == data[a].patients[m].sessions
           IN [data[a].patients[m] EXCEPT !.sessions =
                 StableSort(sessions,
                            [i \in 1..Len(sessions) |->
                               [j \in 1..Len(sessions) |->
                                  DateTextLess(sessions[i].date, sessions[j].date)]])]]]]

(* the grouped structure after a projection has read it: the rows, the
   column lists and the date lists sorted are new lists (lines 144, 186-187) *)
AfterProjection(data) == data

generate_detalle_data(data) ==
  LET F[i \in 0..Len(data)] ==
        IF i = 0 THEN <<>>
        ELSE DictSet(F[i - 1], data[i].calendar_name, CalendarColumns(data[i]))
  IN F[Len(data)]

(* ======================= values of the variables at rest ============== *)
TextValue(text) == [kind |-> "str", text |-> text, number |-> 0]
NoOutcome == [raised |-> FALSE, name |-> <<>>, is_parent_session |-> FALSE]
NoStart ==
  [has_dateTime |-> FALSE, dateTime |-> <<>>, has_date |-> FALSE, date |-> <<>>]
EmptySheet == [cells |-> {}, merged |-> {}]

(* 'not event_title' (line 40) for None, a number and a text *)
Falsy(value) ==
  \/ value.kind = "NoneType"
  \/ value.kind = "int" /\ value.number = 0
  \/ value.kind = "str" /\ value.text = <<>>

(* lines 40-53 on any value: re.match raises TypeError on what is not text *)
extract_patient_name_of(event_title) ==
  IF Falsy(event_title) THEN NoOutcome
  ELSE IF event_title.kind # "str"
  THEN [raised |-> TRUE, name |-> <<>>, is_parent_session |-> FALSE]
  ELSE LET result == extract_patient_name(event_title.text)
       IN [raised |-> FALSE, name |-> result[1], is_parent_session |-> result[2]]

ValueAtRest == title_value = TextValue(<<>>) /\ outcome = NoOutcome
DateAtRest == event_start = NoStart /\ formatted = <<>>
SheetAtRest == ws = EmptySheet /\ report = "none"

(* ======================= the name functions, applied ================== *)
BodyAlphabet == {"a", "B", " ", "\t", "\n", "'", CapitalIWithDot}
Bodies == UNION {[1..n -> BodyAlphabet] : n \in 0..MaxBody}
Prefixes ==
  { <<>>,
    <<"P","a","d","r","e","s"," ","d","e"," ">>,
    <<"p","a","d","r","e","s"," ","d","e"," ">>,
    <<"P","A","D","R","E","S"," ","D","E"," ">>,
    <<"P","a","d","r","e","s"," "," ","d","e"," ">>,
    <<"P","a","d","r","e","s","\t","d","e","\t">>,
    <<"P","a","d","r","e","s"," ","d","e">>,
    <<" ","P","a","d","r","e","s"," ","d","e"," ">>,
    <<"P","a","d","r","e","s","d","e"," ">> }
TitleInputs == {p \o b : p \in Prefixes, b \in Bodies}

NoEvents == <<>>

NonTextValues ==
  { [kind |-> "NoneType", text |-> <<>>, number |-> 0],
    [kind |-> "int", text |-> <<>>, number |-> 0],
    [kind |-> "int", text |-> <<>>, number |-> 5] }

InitName ==
  /\ \/ title \in TitleInputs /\ title_value = TextValue(title)
     \/ title = <<>> /\ title_value \in NonTextValues
  /\ normalized = <<>>
  /\ extracted = << <<>>, FALSE >>
  /\ pc = "title"
  /\ events = NoEvents /\ idx = 1
  /\ processed_data = <<>> /\ totales_data = <<>> /\ detalle_data = <<>>
  /\ done = {}
  /\ outcome = NoOutcome
  /\ DateAtRest /\ SheetAtRest

NormalizeName ==
  /\ pc = "title"
  /\ normalized' = normalize_patient_name(title)
  /\ pc' = "normalized"
  /\ UNCHANGED <<events, idx, processed_data, totales_data, detalle_data, done,
                 title, extracted, valueVars, dateVars, sheetVars>>

ExtractName ==
  /\ pc = "title"
  /\ extracted' = extract_patient_name(title)
  /\ pc' = "extracted"
  /\ UNCHANGED <<events, idx, processed_data, totales_data, detalle_data, done,
                 title, normalized, valueVars, dateVars, sheetVars>>

(* extract_patient_name(event_title) as process_events calls it (line 104) *)
ExtractValue ==
  /\ pc = "title"
  /\ outcome' = extract_patient_name_of(title_value)
  /\ pc' = "value_extracted"
  /\ UNCHANGED <<events, idx, processed_data, totales_data, detalle_data, done,
                 title, normalized, extracted, title_value, dateVars, sheetVars>>

NextName == NormalizeName \/ ExtractName \/ ExtractValue

SpecName == InitName /\ [][NextName]_vars

(* ======================= the aggregation, applied ===================== *)
Clinic == <<"C","l","i","n","i","c">>
Annex == <<"A","n","n","e","x">>

DateStart(text) ==
  [has_dateTime |-> FALSE, dateTime |-> <<>>, has_date |-> TRUE, date |-> text]
DateTimeStart(text) ==
  [has_dateTime |-> TRUE, dateTime |-> text, has_date |-> FALSE, date |-> <<>>]
Feb01 == <<"2","0","2","4","-","0","2","-","0","1">>
Jan05 == <<"2","0","2","4","-","0","1","-","0","5">>
Dec31 == <<"2","0","2","3","-","1","2","-","3","1">>
Jan05Late == Jan05 \o <<"T","2","3",":","3","0",":","0","0","-","0","3",":","0","0">>

RawEvent(calendar_id, calendar_name, has_summary, summary, start) ==
  [calendar_id |-> calendar_id, calendar_name |-> calendar_name,
   has_summary |-> has_summary, summary |-> summary, start |-> start]

(* the events an event list is drawn from: two identifiers under one display
   name, one identifier under two, regular and parent titles, a regular title
   that reads like a parent one, a date-only and a timed start, and the three
   kinds of event the loop skips *)
EventPool ==
  { RawEvent("c1", Clinic, TRUE, <<"a","n","a">>, DateStart(Feb01)),
    RawEvent("c1", Clinic, TRUE, <<"a","n","a">>, DateTimeStart(Jan05Late)),
    RawEvent("c1", Clinic, TRUE,
             <<"P","A","D","R","E","S"," "," ","d","e"," ","a","n","a">>,
             DateStart(Jan05)),
    RawEvent("c1", Clinic, TRUE, <<"B","o">>, DateStart(Jan05)),
    RawEvent("c1", Clinic, TRUE,
             <<" ","p","a","d","r","e","s"," ","d","e"," ","a","n","a">>,
             DateStart(Jan05)),
    RawEvent("c2", Clinic, TRUE, <<"a","n","a">>, DateStart(Jan05)),
    RawEvent("c2", Annex, TRUE, <<"B","o">>, DateStart(Dec31)),
    RawEvent("c1", Clinic, FALSE, <<>>, DateStart(Jan05)),
    RawEvent("c1", Clinic, TRUE, <<"a","n","a">>, NoStart),
    RawEvent("c1", Clinic, TRUE, <<" "," ">>, DateStart(Jan05)) }

EventLists == UNION {[1..n -> EventPool] : n \in 0..MaxEvents}

Init ==
  /\ events \in EventLists
  /\ idx = 1
  /\ processed_data = <<>>
  /\ totales_data = <<>>
  /\ detalle_data = <<>>
  /\ done = {}
  /\ pc = "process_events"
  /\ title = <<>> /\ normalized = <<>> /\ extracted = << <<>>, FALSE >>
  /\ ValueAtRest /\ DateAtRest /\ SheetAtRest

(* one iteration of 'for event in events' *)
ProcessEvent ==
  /\ pc = "process_events"
  /\ idx <= Len(events)
  /\ processed_data' = ProcessOne(processed_data, events[idx])
  /\ idx' = idx + 1
  /\ UNCHANGED <<events, totales_data, detalle_data, done, pc,
                 title, normalized, extracted,
                 valueVars, dateVars, sheetVars>>

(* 'return processed_data' *)
ReturnProcessed ==
  /\ pc = "process_events"
  /\ idx > Len(events)
  /\ pc' = "processed"
  /\ UNCHANGED <<events, idx, processed_data, totales_data, detalle_data, done,
                 title, normalized, extracted,
                 valueVars, dateVars, sheetVars>>

GenerateTotales ==
  /\ pc = "processed"
  /\ totales_data' = generate_totales_data(processed_data)
  /\ processed_data' = AfterProjection(processed_data)
  /\ done' = done \cup {"totales"}
  /\ UNCHANGED <<events, idx, detalle_data, pc,
                 title, normalized, extracted,
                 valueVars, dateVars, sheetVars>>

GenerateDetalle ==
  /\ pc = "processed"
  /\ detalle_data' = generate_detalle_data(processed_data)
  /\ processed_data' = AfterProjection(processed_data)
  /\ done' = done \cup {"detalle"}
  /\ UNCHANGED <<events, idx, totales_data, pc,
                 title, normalized, extracted,
                 valueVars, dateVars, sheetVars>>

(* the event lists of a later call *)
LaterEventLists == {list \in EventLists : Len(list) <= 1}

(* process_events called again, on another list, by the same DataProcessor:
   line 78 starts from a fresh dict and the caller's results are new locals *)
ProcessAgain ==
  /\ pc = "processed"
  /\ done = {"totales", "detalle"}
  /\ events' \in LaterEventLists
  /\ idx' = 1
  /\ processed_data' = <<>>
  /\ totales_data' = <<>> /\ detalle_data' = <<>>
  /\ done' = {}
  /\ pc' = "process_events"
  /\ UNCHANGED <<title, normalized, extracted, valueVars, dateVars, sheetVars>>

Next ==
  \/ ProcessEvent \/ ReturnProcessed \/ GenerateTotales \/ GenerateDetalle
  \/ ProcessAgain

Spec == Init /\ [][Next]_vars

(* ---- excel_generator.py: the 'detalle' sheet ---- *)

(* ws.cell(row=row, column=column, value=value): one value per cell *)
WriteCell(cells, row, column, value) ==
  {c \in cells : ~(c.row = row /\ c.column = column)}
  \cup {[row |-> row, column |-> column, value |-> value]}

(* lines 78-89: the label of each patient in row 1, one column each *)
PatientHeaders(cells, patients, start_col) ==
  LET F[i \in 0..Len(patients)] ==
        IF i = 0 THEN cells
        ELSE WriteCell(F[i - 1], 1, start_col + i - 1, patients[i].patient_name)
  IN F[Len(patients)]

(* patient_cols after the loop of lines 79-89 *)
PatientCols(patients, start_col) ==
  [i \in 1..Len(patients) |-> start_col + i - 1]

(* row 2 merged over the run whatever its width *)
MergeCellsAlways(merged, patient_cols, start_col, current_col) ==
  merged \cup {[start_row |-> 2, start_column |-> start_col,
                end_row |-> 2, end_column |-> current_col - 1]}

(* lines 92-94 *)
MergeCells(merged, patient_cols, start_col, current_col) ==
  IF Len(patient_cols) > 1
  THEN merged \cup {[start_row |-> 2, start_column |-> start_col,
                     end_row |-> 2, end_column |-> current_col - 1]}
  ELSE merged

(* the dates of the i-th patient written under the i-th grid column *)
DateColumnByPosition(patient_cols, i) == i

(* line 103 *)
DateColumn(patient_cols, i) == patient_cols[i]

(* lines 105-107: one date list, top-down from row 3 *)
WriteDates(cells, dates, col) ==
  LET F[r \in 0..Len(dates)] ==
        IF r = 0 THEN cells ELSE WriteCell(F[r - 1], r + 2, col, dates[r])
  IN F[Len(dates)]

(* lines 102-107 *)
PatientDates(cells, patients, patient_cols) ==
  LET F[i \in 0..Len(patients)] ==
        IF i = 0 THEN cells
        ELSE WriteDates(F[i - 1], patients[i].dates, DateColumn(patient_cols, i))
  IN F[Len(patients)]

(* lines 71-107: the body of the loop over detalle_data.items() *)
PlaceCalendar(sheet, current_col, calendar_name, patients) ==
  IF patients = <<>> THEN [sheet |-> sheet, current_col |-> current_col]
  ELSE LET start_col == current_col
           patient_cols == PatientCols(patients, start_col)
           after == current_col + Len(patients)
           headed == PatientHeaders(sheet.cells, patients, start_col)
           named == WriteCell(headed, 2, start_col, calendar_name)
       IN [sheet |-> [cells |-> PatientDates(named, patients, patient_cols),
                      merged |-> MergeCells(sheet.merged, patient_cols,
                                            start_col, after)],
           current_col |-> after]

(* lines 64-107: the cells and merged ranges of the sheet *)
create_detalle_sheet(detalle) ==
  LET F[a \in 0..Len(detalle)] ==
        IF a = 0 THEN [sheet |-> EmptySheet, current_col |-> 1]
        ELSE PlaceCalendar(F[a - 1].sheet, F[a - 1].current_col,
                           detalle[a].calendar_name, detalle[a].columns)
  IN F[Len(detalle)].sheet

Ana == <<"A","n","a">>
Bo == <<"B","o">>
Eva == <<"E","v","a">>
Centro == <<"C","e","n","t","r","o">>
Day0501 == <<"0","5","/","0","1","/","2","0","2","4">>
Day0102 == <<"0","1","/","0","2","/","2","0","2","4">>
Day3112 == <<"3","1","/","1","2","/","2","0","2","3">>

(* the columns a column list is drawn from: two dates, one date, none *)
ColumnPool ==
  { [patient_name |-> Ana, dates |-> <<Day0501, Day0102>>],
    [patient_name |-> Bo, dates |-> <<Day3112>>],
    [patient_name |-> Eva, dates |-> <<>>] }
ColumnLists == UNION {[1..n -> ColumnPool] : n \in 0..MaxColumns}
CalendarNames == <<Clinic, Annex, Centro>>

(* a dict of the first calendars, each with a column list *)
DetalleOf(lists) ==
  [a \in 1..Len(lists) |->
     [calendar_name |-> CalendarNames[a], columns |-> lists[a]]]

InitSheet ==
  /\ \E n \in 0..Len(CalendarNames) :
       \E lists \in [1..n -> ColumnLists] : detalle_data = DetalleOf(lists)
  /\ ws = EmptySheet /\ report = "none"
  /\ pc = "detalle_data"
  /\ events = NoEvents /\ idx = 1
  /\ processed_data = <<>> /\ totales_data = <<>> /\ done = {}
  /\ title = <<>> /\ normalized = <<>> /\ extracted = << <<>>, FALSE >>
  /\ ValueAtRest /\ DateAtRest

CreateDetalleSheet ==
  /\ pc = "detalle_data"
  /\ ws' = create_detalle_sheet(detalle_data)
  /\ pc' = "sheet"
  /\ UNCHANGED <<events, idx, processed_data, totales_data, detalle_data, done,
                 title, normalized, extracted, valueVars, dateVars, report>>

NextSheet == CreateDetalleSheet

SpecSheet == InitSheet /\ [][NextSheet]_vars

(* ---- streamlit_app.py: the 'Generate Report' handler ---- *)

(* no result counts as empty: the warning branch is never taken *)
NeverEmptyResult(data) == FALSE

(* 'not processed_data' (line 164) *)
IsEmptyResult(data) == data = <<>>

(* events = calendar_service.fetch_events(year, month) *)
InitApp ==
  /\ events \in EventLists
  /\ idx = 1
  /\ processed_data = <<>> /\ totales_data = <<>> /\ detalle_data = <<>>
  /\ done = {}
  /\ pc = "fetched"
  /\ title = <<>> /\ normalized = <<>> /\ extracted = << <<>>, FALSE >>
  /\ ValueAtRest /\ DateAtRest /\ SheetAtRest

(* lines 150-152: 'if not events: st.error(...); return' *)
NoEventsFound ==
  /\ pc = "fetched"
  /\ events = <<>>
  /\ pc' = "no_events"
  /\ UNCHANGED <<events, idx, processed_data, totales_data, detalle_data, done,
                 title, normalized, extracted, valueVars, dateVars, sheetVars>>

(* line 162: process_events(events) is entered *)
BeginProcessing ==
  /\ pc = "fetched"
  /\ events # <<>>
  /\ pc' = "process_events"
  /\ UNCHANGED <<events, idx, processed_data, totales_data, detalle_data, done,
                 title, normalized, extracted, valueVars, dateVars, sheetVars>>

(* lines 164-166: 'if not processed_data: st.warning(...); return' *)
WarnNoConsultations ==
  /\ pc = "processed"
  /\ IsEmptyResult(processed_data)
  /\ pc' = "warned"
  /\ UNCHANGED <<events, idx, processed_data, totales_data, detalle_data, done,
                 title, normalized, extracted, valueVars, dateVars, sheetVars>>

(* lines 169-170: the two projections, totals first *)
GenerateReportData ==
  /\ pc = "processed"
  /\ ~IsEmptyResult(processed_data)
  /\ totales_data' = generate_totales_data(processed_data)
  /\ detalle_data' = generate_detalle_data(AfterProjection(processed_data))
  /\ processed_data' = AfterProjection(AfterProjection(processed_data))
  /\ done' = {"totales", "detalle"}
  /\ pc' = "report_data"
  /\ UNCHANGED <<events, idx,
                 title, normalized, extracted, valueVars, dateVars, sheetVars>>

(* lines 176-178 and generate_excel_report: the sheet is built and the
   workbook saved, or an exception is caught and None returned *)
GenerateExcelReport ==
  /\ pc = "report_data"
  /\ ws' = create_detalle_sheet(detalle_data)
  /\ report' \in {"saved", "failed"}
  /\ pc' = "finished"
  /\ UNCHANGED <<events, idx, processed_data, totales_data, detalle_data, done,
                 title, normalized, extracted, valueVars, dateVars>>

NextApp ==
  \/ NoEventsFound \/ BeginProcessing \/ ProcessEvent \/ ReturnProcessed
  \/ WarnNoConsultations \/ GenerateReportData \/ GenerateExcelReport

SpecApp == InitApp /\ [][NextApp]_vars

(* ---- the start of one event, formatted (lines 90-101) ---- *)
pipelineVars == <<events, idx, processed_data, totales_data, detalle_data, done>>
nameVars == <<title, normalized, extracted>>
PipelineAtRest ==
  /\ events = NoEvents /\ idx = 1
  /\ processed_data = <<>> /\ totales_data = <<>> /\ detalle_data = <<>>
  /\ done = {}
NameAtRest == title = <<>> /\ normalized = <<>> /\ extracted = << <<>>, FALSE >>

Feb15 == <<"2","0","2","4","-","0","2","-","1","5">>
Days == {Feb01, Jan05, Dec31, Feb15}
Times == { <<"T","0","0",":","1","5",":","0","0">>,
           <<"T","2","3",":","3","0",":","0","0">> }
Offsets == { <<>>, <<"Z">>, <<"-","0","3",":","0","0">>,
             <<"+","0","5",":","3","0">>, <<"+","1","4",":","0","0">> }
Timestamps == {d \o t \o o : d \in Days, t \in Times, o \in Offsets}
StartInputs ==
  {DateStart(d) : d \in Days} \cup {DateTimeStart(t) : t \in Timestamps}
  \cup {[has_dateTime |-> TRUE, dateTime |-> t, has_date |-> TRUE, date |-> d] :
          t \in Timestamps, d \in Days}

InitDate ==
  /\ event_start \in StartInputs
  /\ formatted = <<>>
  /\ pc = "start"
  /\ PipelineAtRest /\ NameAtRest /\ ValueAtRest /\ SheetAtRest

FormatStart ==
  /\ pc = "start"
  /\ HasStart([start |-> event_start])
  /\ formatted' = FormattedDate([start |-> event_start])
  /\ pc' = "formatted"
  /\ UNCHANGED <<pipelineVars, nameVars, valueVars, event_start, sheetVars>>

NextDate == FormatStart

SpecDate == InitDate /\ [][NextDate]_vars

(* ======================= properties =================================== *)
SumOfTotals(rows) ==
  LET F[i \in 0..Len(rows)] == IF i = 0 THEN 0 ELSE F[i - 1] + rows[i].total
  IN F[Len(rows)]

(* an event none of the three filters drops *)
Survivor(event) ==
  /\ event.has_summary
  /\ event.start.has_dateTime \/ event.start.has_date
  /\ extract_patient_name(event.summary)[1] # <<>>

SurvivorCount == Cardinality({i \in 1..Len(events) : Survivor(events[i])})

(* C1: once the totals projection is built, the sum of its totals is the
   number of events of the input list that survive the three skip filters. *)
C1_TotalsSumEqualsSurvivors ==
  "totales" \in done => SumOfTotals(totales_data) = SurvivorCount

C1_Witness ==
  /\ "totales" \in done
  /\ Len(totales_data) >= 2
  /\ SurvivorCount >= 2
  /\ SurvivorCount < Len(events)

(* the number of dates under the columns of cols labelled label *)
DatesUnder(cols, label) ==
  LET F[i \in 0..Len(cols)] ==
        IF i = 0 THEN 0
        ELSE F[i - 1] + (IF cols[i].patient_name = label THEN Len(cols[i].dates) ELSE 0)
  IN F[Len(cols)]

(* the column list the detail projection holds under a display name *)
DetailColumns(calendar_name) ==
  IF \E i \in 1..Len(detalle_data) : detalle_data[i].calendar_name = calendar_name
  THEN detalle_data[CHOOSE i \in 1..Len(detalle_data) :
                      detalle_data[i].calendar_name = calendar_name].columns
  ELSE <<>>

(* C2: every totals row (C, P, n) is accounted for by the detail projection:
   n is the number of dates under C's column P plus the number under C's
   column "Padres de P". *)
C2_DetailAccountsForTotals ==
  done = {"totales", "detalle"} =>
    \A i \in 1..Len(totales_data) :
       LET r == totales_data[i]
           cols == DetailColumns(r.calendario)
       IN r.total = DatesUnder(cols, r.nombre) + DatesUnder(cols, PadresDe \o r.nombre)

(* C3, as claimed: no two totals rows share (display name, patient name). *)
C3_NoTwoRowsShareKey ==
  "totales" \in done =>
    \A i, j \in 1..Len(totales_data) :
       (totales_data[i].calendario = totales_data[j].calendario
        /\ totales_data[i].nombre = totales_data[j].nombre) => i = j

PatientGroupCount ==
  LET F[i \in 0..Len(processed_data)] ==
        IF i = 0 THEN 0 ELSE F[i - 1] + Len(processed_data[i].patients)
  IN F[Len(processed_data)]

HasPatient(cal, name) == \E k \in 1..Len(cal.patients) : cal.patients[k].name = name

(* C3, amended: there is one totals row per (calendar identifier, patient)
   group, every calendar identifier and every patient within it is grouped
   once, and two rows share (display name, patient name) only when two
   different calendar identifiers carry that display name and both hold that
   patient. *)
C3_OneRowPerGroup ==
  "totales" \in done =>
    /\ Len(totales_data) = PatientGroupCount
    /\ \A a, b \in 1..Len(processed_data) :
         processed_data[a].calendar_id = processed_data[b].calendar_id => a = b
    /\ \A a \in 1..Len(processed_data) :
         \A k, m \in 1..Len(processed_data[a].patients) :
            processed_data[a].patients[k].name = processed_data[a].patients[m].name
              => k = m
    /\ \A i, j \in 1..Len(totales_data) :
         (i # j /\ totales_data[i].calendario = totales_data[j].calendario
                /\ totales_data[i].nombre = totales_data[j].nombre)
         => \E a, b \in 1..Len(processed_data) :
               /\ a # b
               /\ processed_data[a].calendar_name = totales_data[i].calendario
               /\ processed_data[b].calendar_name = totales_data[i].calendario
               /\ HasPatient(processed_data[a], totales_data[i].nombre)
               /\ HasPatient(processed_data[b], totales_data[i].nombre)

C3_Witness ==
  /\ "totales" \in done
  /\ Len(totales_data) >= 3
  /\ \E i, j \in 1..Len(totales_data) :
       /\ i # j
       /\ totales_data[i].calendario = totales_data[j].calendario
       /\ totales_data[i].nombre = totales_data[j].nombre

(* s <= t for two texts, by code point *)
TextLeq(s, t) ==
  \/ s = t
  \/ \E k \in 1..Len(t) :
        /\ k - 1 <= Len(s)
        /\ SubSeq(s, 1, k - 1) = SubSeq(t, 1, k - 1)
        /\ (Len(s) = k - 1 \/ CodePoint(s[k]) < CodePoint(t[k]))

(* C4: the totals rows are in ascending order of (display name, patient
   name): each row's key is at most the next row's. *)
C4_TotalsSorted ==
  "totales" \in done =>
    \A i \in 1..(Len(totales_data) - 1) :
       LET x == totales_data[i]
           y == totales_data[i + 1]
       IN \/ x.calendario # y.calendario /\ TextLeq(x.calendario, y.calendario)
          \/ x.calendario = y.calendario /\ TextLeq(x.nombre, y.nombre)

C4_Witness ==
  /\ "totales" \in done
  /\ Len(totales_data) >= 3
  /\ totales_data # TotalesRows(processed_data)
  /\ \E i, j \in 1..Len(totales_data) :
       totales_data[i].calendario # totales_data[j].calendario

(* the text with its letters lower-cased *)
Folded(s) == [i \in 1..Len(s) |-> ToLower(s[i])]

FoldedPadresDe == <<"p","a","d","r","e","s"," ","d","e"," ">>

(* the title is "Padres de " in some casing and then one or more characters *)
StartsWithPadresDe(t) ==
  Len(t) > Len(FoldedPadresDe) /\ Folded(SubSeq(t, 1, Len(FoldedPadresDe))) = FoldedPadresDe

(* C5, as claimed: a title "Padres de X" in any casing yields
   (normalize(X), true), every other non-empty title yields
   (normalize(title), false), and the empty title yields (empty, false). *)
C5_ExtractAsClaimed ==
  pc = "extracted" =>
    extracted =
      IF title = <<>> THEN << <<>>, FALSE >>
      ELSE IF StartsWithPadresDe(title)
           THEN << normalize_patient_name(
                     SubSeq(title, Len(FoldedPadresDe) + 1, Len(title))), TRUE >>
           ELSE << normalize_patient_name(title), FALSE >>

AllSpace(t, lo, hi) == lo <= hi /\ \A i \in lo..hi : t[i] \in {" ", "\t", "\n"}

(* the texts X for which the title reads: "Padres" in any casing, one or
   more whitespace characters, "de" in any casing, one or more whitespace
   characters, X, and at most one final line feed; X has one character or
   more and no line feed *)
PadresRemainders(t) ==
  IF Len(t) < 6 \/ Folded(SubSeq(t, 1, 6)) # <<"p","a","d","r","e","s">> THEN {}
  ELSE LET I == {i \in 7..(Len(t) - 2) :
                   AllSpace(t, 7, i) /\ Folded(SubSeq(t, i + 1, i + 2)) = <<"d","e">>}
           J == UNION {{j \in (i + 3)..Len(t) : AllSpace(t, i + 3, j)} : i \in I}
           E == {e \in {Len(t) - 1, Len(t)} : e = Len(t) \/ t[Len(t)] = "\n"}
       IN { SubSeq(t, w[1] + 1, w[2]) :
              w \in {v \in J \X E :
                       v[1] + 1 <= v[2] /\ \A k \in (v[1] + 1)..v[2] : t[k] # "\n"} }

(* C5, amended: a title that reads "Padres", whitespace, "de", whitespace, X
   (any casing, any run of whitespace characters, X of one character or more
   on one line, an optional final line feed) yields (normalize(X), true);
   every other non-empty title yields (normalize(title), false); the empty
   title yields (empty, false). *)
C5_ExtractAmended ==
  pc = "extracted" =>
    IF title = <<>> THEN extracted = << <<>>, FALSE >>
    ELSE LET R == PadresRemainders(title)
         IN IF R # {}
            THEN \A X \in R : extracted = << normalize_patient_name(X), TRUE >>
            ELSE extracted = << normalize_patient_name(title), FALSE >>

C5_Witness ==
  /\ pc = "extracted"
  /\ extracted[2]
  /\ extracted[1] # <<>>
  /\ ~StartsWithPadresDe(title)

(* C6: normalizing a normalized name changes nothing, and a normalized name
   neither starts nor ends with whitespace nor holds two whitespace
   characters in a row. *)
C6_NormalizeIdempotent ==
  pc = "normalized" =>
    /\ normalize_patient_name(normalized) = normalized
    /\ normalized # <<>> =>
         /\ normalized[1] \notin {" ", "\t", "\n"}
         /\ normalized[Len(normalized)] \notin {" ", "\t", "\n"}
    /\ \A i \in 1..(Len(normalized) - 1) :
         ~(normalized[i] \in {" ", "\t", "\n"} /\ normalized[i + 1] \in {" ", "\t", "\n"})

(* the day of a DD/MM/YYYY text as a number that grows with the calendar *)
DayNumber(x) ==
  LET v(i) == CodePoint(x[i]) - 48
  IN ((v(7) * 1000 + v(8) * 100 + v(9) * 10 + v(10)) * 10000)
     + ((v(4) * 10 + v(5)) * 100) + (v(1) * 10 + v(2))

Occurrences(seq, x) == Cardinality({i \in 1..Len(seq) : seq[i] = x})
IsPermutation(a, b) ==
  Len(a) = Len(b) /\ \A i \in 1..Len(a) : Occurrences(a, a[i]) = Occurrences(b, a[i])

(* the dates of a patient group's sessions of one kind, in arrival order *)
DatesOfKind(patient, parent) ==
  LET ix == {i \in 1..Len(patient.sessions) :
               patient.sessions[i].is_parent_session = parent}
      F[i \in 0..Len(patient.sessions)] ==
        IF i = 0 THEN <<>>
        ELSE IF i \in ix THEN F[i - 1] \o <<patient.sessions[i].date>> ELSE F[i - 1]
  IN F[Len(patient.sessions)]

(* C7: in every column of the detail projection the dates are in
   non-decreasing order of (year, month, day), and they are a permutation of
   the dates of the sessions the column stands for: the regular sessions of
   the patient it is labelled with, or the parent sessions of the patient X
   when it is labelled "Padres de X", in a calendar of that display name. *)
C7_ColumnDatesChronological ==
  "detalle" \in done =>
    \A c \in 1..Len(detalle_data) :
      \A k \in 1..Len(detalle_data[c].columns) :
         LET col == detalle_data[c].columns[k]
         IN /\ \A i \in 1..(Len(col.dates) - 1) :
                 DayNumber(col.dates[i]) <= DayNumber(col.dates[i + 1])
            /\ \E a \in 1..Len(processed_data) :
                 /\ processed_data[a].calendar_name = detalle_data[c].calendar_name
                 /\ \E m \in 1..Len(processed_data[a].patients) :
                      LET patient == processed_data[a].patients[m]
                      IN \/ /\ col.patient_name = patient.name
                            /\ IsPermutation(col.dates, DatesOfKind(patient, FALSE))
                         \/ /\ col.patient_name = PadresDe \o patient.name
                            /\ IsPermutation(col.dates, DatesOfKind(patient, TRUE))

C7_Witness ==
  /\ "detalle" \in done
  /\ \E c \in 1..Len(detalle_data) :
       \E k \in 1..Len(detalle_data[c].columns) :
          LET dates == detalle_data[c].columns[k].dates
          IN /\ Len(dates) >= 2
             /\ DayNumber(dates[1]) < DayNumber(dates[2])
             /\ dates[1] # dates[2] /\ TextLeq(dates[2], dates[1])
             /\ \E a \in 1..Len(processed_data) :
                  \E m \in 1..Len(processed_data[a].patients) :
                     Len(processed_data[a].patients[m].sessions) >= 2
                     /\ processed_data[a].patients[m].sessions[1].date = dates[2]

HasColumn(cols, label) == \E k \in 1..Len(cols) : cols[k].patient_name = label
ColumnCount(cols, labels) == Cardinality({k \in 1..Len(cols) : cols[k].patient_name \in labels})

(* C8: for every patient group, the detail projection holds under the
   group's calendar a column labelled with the patient name exactly when the
   group has a regular session, a column labelled "Padres de " + name exactly
   when it has a parent session, and no column has an empty date list. *)
C8_ColumnsIffSessions ==
  "detalle" \in done =>
    /\ \A a \in 1..Len(processed_data) :
         \A m \in 1..Len(processed_data[a].patients) :
            LET patient == processed_data[a].patients[m]
                cols == DetailColumns(processed_data[a].calendar_name)
            IN /\ HasColumn(cols, patient.name) <=> DatesOfKind(patient, FALSE) # <<>>
               /\ HasColumn(cols, PadresDe \o patient.name)
                    <=> DatesOfKind(patient, TRUE) # <<>>
               /\ ColumnCount(cols, {patient.name, PadresDe \o patient.name}) <= 2
    /\ \A c \in 1..Len(detalle_data) :
         \A k \in 1..Len(detalle_data[c].columns) :
            detalle_data[c].columns[k].dates # <<>>

(* C9: the columns of every calendar of the detail projection are in
   ascending order of their whole label. *)
C9_ColumnsSortedByLabel ==
  "detalle" \in done =>
    \A c \in 1..Len(detalle_data) :
      \A k \in 1..(Len(detalle_data[c].columns) - 1) :
         TextLeq(detalle_data[c].columns[k].patient_name,
                 detalle_data[c].columns[k + 1].patient_name)

(* a "Padres de X" column that another patient's column separates from X's *)
C9_Witness ==
  /\ "detalle" \in done
  /\ \E c \in 1..Len(detalle_data) :
       LET cols == detalle_data[c].columns
       IN \E i, k \in 1..Len(cols) :
             /\ k > i + 1
             /\ cols[k].patient_name = PadresDe \o cols[i].patient_name
             /\ processed_data[1].patients[1].name = cols[i].patient_name
             /\ Len(processed_data[1].patients[1].sessions) >= 2

(* C10: at every point of the aggregation, between events and after the
   last, each patient group's total_sessions is the length of its sessions. *)
C10_TotalMatchesSessions ==
  \A a \in 1..Len(processed_data) :
    \A m \in 1..Len(processed_data[a].patients) :
       processed_data[a].patients[m].total_sessions
         = Len(processed_data[a].patients[m].sessions)

C10_Witness ==
  /\ pc = "process_events"
  /\ idx <= Len(events)
  /\ \E a \in 1..Len(processed_data) :
       \E m \in 1..Len(processed_data[a].patients) :
          processed_data[a].patients[m].total_sessions >= 2

(* the events already processed that survive and carry the identifier *)
SurvivorsOf(calendar_id) ==
  {i \in 1..(idx - 1) : Survivor(events[i]) /\ events[i].calendar_id = calendar_id}

SessionCount(cal) ==
  LET F[m \in 0..Len(cal.patients)] ==
        IF m = 0 THEN 0 ELSE F[m - 1] + Len(cal.patients[m].sessions)
  IN F[Len(cal.patients)]

(* C11: at every point of the aggregation a calendar group carries the
   display name of the first surviving event of its identifier, and holds one
   session for every surviving event of that identifier processed so far,
   whatever display name that event carries. *)
C11_FirstDisplayNameWins ==
  \A a \in 1..Len(processed_data) :
     LET cal == processed_data[a]
         mine == SurvivorsOf(cal.calendar_id)
     IN /\ mine # {}
        /\ cal.calendar_name
             = events[CHOOSE i \in mine : \A j \in mine : i <= j].calendar_name
        /\ SessionCount(cal) = Cardinality(mine)

C11_Witness ==
  /\ pc = "processed"
  /\ \E a \in 1..Len(processed_data) :
       LET mine == SurvivorsOf(processed_data[a].calendar_id)
       IN /\ Cardinality(mine) >= 3
          /\ \E i, j \in mine :
                /\ i < j
                /\ events[i].calendar_name # events[j].calendar_name
                /\ \E k \in mine : k > j /\ events[k].calendar_name = events[i].calendar_name

(* the grouped structure one pass over a whole event list builds *)
Aggregate(list) ==
  LET F[i \in 0..Len(list)] ==
        IF i = 0 THEN <<>> ELSE ProcessOne(F[i - 1], list[i])
  IN F[Len(list)]

RemoveAt(list, k) == SubSeq(list, 1, k - 1) \o SubSeq(list, k + 1, Len(list))

(* an event with no title field, or with neither a timestamp nor a date *)
StructuralGap(event) ==
  ~event.has_summary \/ ~(event.start.has_dateTime \/ event.start.has_date)

(* C12: the grouped structure process_events returns, and hence both
   projections, are those of the same list without any one event that has
   no title field or no usable start, wherever the event sits. *)
C12_StructuralGapsDropped ==
  pc = "processed" =>
    \A k \in 1..Len(events) :
       StructuralGap(events[k]) =>
         LET without == Aggregate(RemoveAt(events, k))
         IN /\ processed_data = without
            /\ "totales" \in done => totales_data = generate_totales_data(without)
            /\ "detalle" \in done => detalle_data = generate_detalle_data(without)

C12_Witness ==
  /\ pc = "processed"
  /\ done = {"totales", "detalle"}
  /\ Len(events) = 3
  /\ StructuralGap(events[2])
  /\ Survivor(events[1]) /\ Survivor(events[3])
  /\ events[1].calendar_id # events[3].calendar_id

(* the day, month and year a start text itself spells, as DD/MM/YYYY *)
OwnDay(text) ==
  <<text[9], text[10], "/", text[6], text[7], "/",
    text[1], text[2], text[3], text[4]>>

(* C13: the session date is the day the start's own text spells, the same
   for a date-only start and for a timestamp of that day whatever its offset
   or trailing Z; when both a timestamp and a date are present the timestamp
   is the one used. *)
C13_OwnDayFormatted ==
  pc = "formatted" =>
    formatted = OwnDay(IF event_start.has_dateTime THEN event_start.dateTime
                       ELSE event_start.date)

C13_Witness ==
  /\ pc = "formatted"
  /\ event_start.has_dateTime /\ event_start.has_date
  /\ event_start.date = Feb01
  /\ event_start.dateTime = Jan05Late
  /\ formatted = <<"0","5","/","0","1","/","2","0","2","4">>

(* the number of grid columns taken by the calendars before the a-th *)
ColumnsBefore(a) ==
  LET F[i \in 0..Len(detalle_data)] ==
        IF i = 0 THEN 0 ELSE F[i - 1] + Len(detalle_data[i].columns)
  IN F[a - 1]
TotalColumns == ColumnsBefore(Len(detalle_data) + 1)
Banded == {a \in 1..Len(detalle_data) : detalle_data[a].columns # <<>>}
CellsAt(row, column) == {c \in ws.cells : c.row = row /\ c.column = column}
Holds(row, column, value) ==
  CellsAt(row, column) = {[row |-> row, column |-> column, value |-> value]}
RunRange(a) ==
  [start_row |-> 2, start_column |-> ColumnsBefore(a) + 1,
   end_row |-> 2, end_column |-> ColumnsBefore(a) + Len(detalle_data[a].columns)]

(* C14: each calendar with k >= 1 columns holds the k grid columns after
   those of the calendars before it, in its own column order; row 1 holds the
   labels over columns 1..N and nothing else, row 2 holds the calendar name
   at the first column of each run and nothing else, and the merged ranges
   are exactly the runs with k > 1; a calendar with no column leaves nothing. *)
C14_BandedLayout ==
  pc = "sheet" =>
    /\ \A a \in Banded :
         /\ \A j \in 1..Len(detalle_data[a].columns) :
              Holds(1, ColumnsBefore(a) + j,
                    detalle_data[a].columns[j].patient_name)
         /\ Holds(2, ColumnsBefore(a) + 1, detalle_data[a].calendar_name)
    /\ {c.column : c \in {x \in ws.cells : x.row = 1}} = 1..TotalColumns
    /\ {c.column : c \in {x \in ws.cells : x.row = 2}}
         = {ColumnsBefore(a) + 1 : a \in Banded}
    /\ ws.merged = {RunRange(a) : a \in {b \in Banded : Len(detalle_data[b].columns) > 1}}
    /\ \A c \in ws.cells : c.row >= 1 /\ c.column \in 1..TotalColumns

C14_Witness ==
  /\ pc = "sheet"
  /\ Len(detalle_data) = 3
  /\ Len(detalle_data[1].columns) = 2
  /\ detalle_data[2].columns = <<>>
  /\ Len(detalle_data[3].columns) = 1
  /\ Holds(2, 3, Centro)
  /\ Cardinality(ws.merged) = 1

(* C15: under the label of every column, rows 3.. hold the column's dates
   in order, one per row, and nothing lies below them; so every date cell of
   the sheet belongs to the column whose list it comes from. *)
C15_DatesUnderOwnColumn ==
  pc = "sheet" =>
    \A a \in Banded :
      \A j \in 1..Len(detalle_data[a].columns) :
        LET c == ColumnsBefore(a) + j
            d == detalle_data[a].columns[j].dates
        IN /\ \A i \in 1..Len(d) : Holds(2 + i, c, d[i])
           /\ \A x \in ws.cells : x.column = c => x.row <= 2 + Len(d)

C15_Witness ==
  /\ pc = "sheet"
  /\ Len(detalle_data) = 2
  /\ detalle_data[1].columns = <<[patient_name |-> Bo, dates |-> <<Day3112>>]>>
  /\ detalle_data[2].columns = <<[patient_name |-> Eva, dates |-> <<>>],
                                 [patient_name |-> Ana, dates |-> <<Day0501, Day0102>>]>>
  /\ Holds(4, 3, Day0102)
  /\ CellsAt(3, 2) = {}

(* C16: extraction raises an exception on no title value, and a title value that is not
   text comes out as the empty name, not a parent session. *)
C16_NonTextIsEmptyTitle ==
  pc = "value_extracted" =>
    /\ ~outcome.raised
    /\ title_value.kind # "str" =>
         outcome.name = <<>> /\ ~outcome.is_parent_session

(* C17: process_events returns the empty mapping exactly when no event of
   the list survives the filters; after the warning no projection has run
   and no report exists; projections, sheet and report exist only after a
   non-empty aggregation. *)
C17_EmptyResultIsTerminal ==
  /\ pc \in {"processed", "warned", "report_data", "finished"} =>
       (processed_data = <<>> <=> SurvivorCount = 0)
  /\ pc = "warned" =>
       /\ SurvivorCount = 0
       /\ done = {} /\ totales_data = <<>> /\ detalle_data = <<>>
       /\ ws = EmptySheet /\ report = "none"
  /\ (done # {} \/ ws # EmptySheet \/ report # "none") => SurvivorCount > 0
  /\ pc \in {"report_data", "finished"} =>
       done = {"totales", "detalle"} /\ totales_data # <<>> /\ detalle_data # <<>>

C17_Witness ==
  /\ pc = "warned"
  /\ Len(events) = 3
  /\ ~events[1].has_summary
  /\ events[2].has_summary /\ ~HasStart(events[2])
  /\ events[3].has_summary /\ HasStart(events[3])

(* the sessions of one patient of one calendar, as the events arrive *)
ArrivalSessions(calendar_id, name) ==
  LET F[i \in 0..Len(events)] ==
        IF i = 0 THEN <<>>
        ELSE IF /\ Survivor(events[i])
                /\ events[i].calendar_id = calendar_id
                /\ extract_patient_name(events[i].summary)[1] = name
             THEN Append(F[i - 1],
                         [date |-> FormattedDate(events[i]),
                          title |-> events[i].summary,
                          is_parent_session |->
                            extract_patient_name(events[i].summary)[2]])
             ELSE F[i - 1]
  IN F[Len(events)]

(* C18: whatever projections have been called since process_events
   returned, in whatever order and however often, and whatever lists were
   processed before, the grouped structure is the one of the event list
   alone, each session list in arrival order, and each projection's result
   is the one of that structure. *)
C18_ProjectionsPure ==
  pc = "processed" =>
    /\ processed_data = Aggregate(events)
    /\ \A a \in 1..Len(processed_data) :
         \A m \in 1..Len(processed_data[a].patients) :
            processed_data[a].patients[m].sessions
              = ArrivalSessions(processed_data[a].calendar_id,
                                processed_data[a].patients[m].name)
    /\ "totales" \in done => totales_data = generate_totales_data(Aggregate(events))
    /\ "detalle" \in done => detalle_data = generate_detalle_data(Aggregate(events))

C18_Witness ==
  /\ pc = "processed"
  /\ done = {"totales", "detalle"}
  /\ \E a \in 1..Len(processed_data) :
       \E m \in 1..Len(processed_data[a].patients) :
          LET sessions == processed_data[a].patients[m].sessions
          IN /\ Len(sessions) >= 2
             /\ DayNumber(sessions[1].date) > DayNumber(sessions[2].date)
             /\ sessions[1].is_parent_session = sessions[2].is_parent_session

(* the text begins with "Padres de ", in exactly this casing *)
BeginsPadresDe(text) ==
  /\ Len(text) >= 10
  /\ SubSeq(text, 1, 10) = <<"P","a","d","r","e","s"," ","d","e"," ">>

(* C19: the labels of the columns of one calendar of the detail projection
   are pairwise distinct, a parent label "Padres de X" included: a patient
   name is title-cased, so none begins with "Padres de ". *)
C19_LabelsDistinct ==
  "detalle" \in done =>
    /\ \A c \in 1..Len(detalle_data) :
         \A i, j \in 1..Len(detalle_data[c].columns) :
            i # j => detalle_data[c].columns[i].patient_name
                       # detalle_data[c].columns[j].patient_name
    /\ \A a \in 1..Len(processed_data) :
         \A m \in 1..Len(processed_data[a].patients) :
            ~BeginsPadresDe(processed_data[a].patients[m].name)

C19_Witness ==
  /\ "detalle" \in done
  /\ \E c \in 1..Len(detalle_data) :
       \E i, j \in 1..Len(detalle_data[c].columns) :
          /\ detalle_data[c].columns[i].patient_name
               = <<"P","a","d","r","e","s"," ","d","e"," ","A","n","a">>
          /\ detalle_data[c].columns[j].patient_name
               = <<"P","a","d","r","e","s"," ","D","e"," ","A","n","a">>

(* each calendar identifier of the list goes with one display name *)
SingleNamePerId(list) ==
  \A i, j \in 1..Len(list) :
     list[i].calendar_id = list[j].calendar_id
       => list[i].calendar_name = list[j].calendar_name

Reordered(list, p) == [i \in 1..Len(list) |-> list[p[i]]]
Entries(detalle) == {detalle[i] : i \in 1..Len(detalle)}

(* C20: when each calendar identifier of the event list goes with one
   display name, both projections of every reordering of the list are those
   of the list itself: the same totals rows in the same order, and the same
   column list, with the same dates, for each calendar. *)
C20_OrderIndependent ==
  (done = {"totales", "detalle"} /\ SingleNamePerId(events)) =>
    \A p \in Permutations(1..Len(events)) :
       LET data == Aggregate(Reordered(events, p))
       IN /\ generate_totales_data(data) = totales_data
          /\ Entries(generate_detalle_data(data)) = Entries(detalle_data)

====
